---- MODULE Spec2Model ----
(***************************************************************************)
(* Model of intelematics_write_features.py: the crank feature extraction   *)
(* (iv, lvv, mcv) and the batch driver that writes one line per crank      *)
(* file.                                                                   *)
(*                                                                         *)
(* Numbers.  Voltages are fixed-point integers: one volt is Volt units,    *)
(* Volt being the least common multiple of 1..window, so that every mean   *)
(* of at most `window` raw samples is an exact integer.  Raw samples are   *)
(* whole volts (multiples of Volt).  Python indices are 0-based; the       *)
(* operators below take and return 0-based indices and translate to the    *)
(* 1-based sequences of TLA+ only when they read a sequence.               *)
(***************************************************************************)
EXTENDS Integers, Sequences, FiniteSets, TLC

VARIABLES
    files,           \* the crank files still to be read by the driver
    result_file,     \* what has been written to features_IEU_algorithm.txt
    crank,           \* the crank message handed to extract_features
    pc,              \* position in the driver / in extract_features
    smoothed_trace,  \* extract_features: smoothed_trace
    min_index,       \* extract_features: min_index
    iv,              \* extract_features: iv
    end_mcv_domain,  \* get_mcv: end_mcv_domain
    local_maxima,    \* get_mcv: local_maxima
    projection,      \* get_mcv: projection
    average_ends,    \* get_mcv: upper bound of the averaged slice
    mcv,             \* extract_features: mcv
    lvv,             \* extract_features: lvv
    features,        \* the value returned by extract_features
    exception        \* the exception that left extract_features, "" if none

vars == <<files, result_file, crank, pc, smoothed_trace, min_index, iv,
          end_mcv_domain, local_maxima, projection, average_ends, mcv, lvv,
          features, exception>>

----------------------------------------------------------------------------
(* Numbers and Python sequences *)

\* One volt in fixed-point units: lcm(1..5).
Volt == 3 * 4 * 5

\* Python's None, where the code holds "an index or None".
None == -1

\* A float that is a number, and the float that is not one (np.mean([])).
Float(v) == [finite |-> TRUE, val |-> v]
NaN == [finite |-> FALSE, val |-> 0]

Abs(x) == IF x < 0 THEN -x ELSE x
Max2(a, b) == IF a > b THEN a ELSE b
Min2(a, b) == IF a < b THEN a ELSE b

\* A slice bound as Python normalises it: negative counts from the end,
\* then clipped to 0..len.
SliceBound(n, i) == IF i < 0 THEN Max2(n + i, 0) ELSE Min2(i, n)

\* s[a:b]
Slice(s, a, b) == SubSeq(s, SliceBound(Len(s), a) + 1, SliceBound(Len(s), b))

\* s[a:]
SliceFrom(s, a) == Slice(s, a, Len(s))

\* s[i], a negative i counting from the end (the caller keeps it in range).
Item(s, i) == IF i < 0 THEN s[Len(s) + i + 1] ELSE s[i + 1]

RECURSIVE SumSeq(_)
SumSeq(s) == IF s = <<>> THEN 0 ELSE Head(s) + SumSeq(Tail(s))

SeqMin(s) == CHOOSE v \in {s[i] : i \in 1..Len(s)} :
                 \A j \in 1..Len(s) : v <= s[j]
SeqMax(s) == CHOOSE v \in {s[i] : i \in 1..Len(s)} :
                 \A j \in 1..Len(s) : v >= s[j]

\* np.argmin: the first index of the minimum (of a non-empty sequence).
ArgMin(s) == CHOOSE i \in 0..(Len(s) - 1) :
                 /\ \A j \in 1..Len(s) : s[i + 1] <= s[j]
                 /\ \A j \in 1..i : s[j] > s[i + 1]

\* The elements of a finite set of integers in ascending order.
RECURSIVE Ascending(_)
Ascending(S) == IF S = {} THEN <<>>
                ELSE LET m == CHOOSE x \in S : \A y \in S : x <= y
                     IN  <<m>> \o Ascending(S \ {m})

----------------------------------------------------------------------------
(* Results of a call: a value, or the exception that left it *)

Ok(v) == [exc |-> "", val |-> v]
Raise(e) == [exc |-> e, val |-> None]

----------------------------------------------------------------------------
(* get_smoothed_trace (lines 154-177) *)

\* window=5, the default of get_smoothed_trace.
Window == 5

\* min_periods=1 of rolling().
MinPeriods == 1

\* Mutant of WindowMean: the sum of a partial window is divided by the
\* window size, not by the number of samples seen.
WindowMeanFullDivisor(s, i, window) ==
    SumSeq(Slice(s, Max2(0, i - window + 1), i + 1)) \div window

\* The trailing mean at 0-based position i: the mean of the samples
\* s[max(0, i-window+1) .. i], however many there are.
WindowMean(s, i, window) ==
    LET w == Slice(s, Max2(0, i - window + 1), i + 1)
    IN  SumSeq(w) \div Len(w)

\* rolling(min_periods, window).mean().dropna().tolist(): a position whose
\* window holds fewer than min_periods samples is NaN and dropna() drops
\* it; the others are the trailing means, in order.
RollingMeanDropna(s, window, min_periods) ==
    LET kept == {i \in 0..(Len(s) - 1) : Min2(i + 1, window) >= min_periods}
        idx  == Ascending(kept)
    IN  [k \in 1..Len(idx) |-> WindowMean(s, idx[k], window)]

\* Mutant of get_smoothed_trace: min_periods left at pandas' default (the
\* window size), so the first window-1 positions of the suffix are NaN and
\* dropped.
get_smoothed_trace_default_min_periods(profile) ==
    LET index_min == ArgMin(profile)
    IN  Slice(profile, 0, index_min + 1)
          \o RollingMeanDropna(SliceFrom(profile, index_min + 1), Window, Window)

\* Mutant of get_smoothed_trace: the whole profile is smoothed, the prefix
\* up to the minimum included.
get_smoothed_trace_whole(profile) ==
    RollingMeanDropna(profile, Window, MinPeriods)

\* The profile up to and including its first minimum, unsmoothed, followed
\* by the moving average of what comes after it.
get_smoothed_trace(profile) ==
    LET index_min == ArgMin(profile)
    IN  Slice(profile, 0, index_min + 1)
          \o RollingMeanDropna(SliceFrom(profile, index_min + 1), Window, MinPeriods)

----------------------------------------------------------------------------
(* get_local_maxima (lines 8-37) *)

\* The 10 of smoothed_trace[:-10], peak - 10, peak + 10 and of the
\* separation test.
PeakSpan == 10

\* data.take(i, mode='clip') of scipy's argrelextrema.
TakeClip(x, i) == x[Max2(0, Min2(Len(x) - 1, i)) + 1]

\* signal.argrelextrema(x, np.greater)[0]: the indices whose sample is
\* greater than both neighbours, ascending; an end of x is compared with
\* itself and is never one.
ArgRelExtremaGreater(x) ==
    Ascending({i \in 0..(Len(x) - 1) :
                  /\ x[i + 1] > TakeClip(x, i + 1)
                  /\ x[i + 1] > TakeClip(x, i - 1)})

\* "not previous": None and 0 are both falsy.
Falsy(v) == v = None \/ v = 0

\* abs(a - b) > 0.1
MoreThanTenthVolt(a, b) == 10 * Abs(a - b) > Volt

\* The three tests of a candidate against the samples 10 before and 10
\* after it; peak - 10 is negative for peak < 10 and then counts from the
\* end of the trace it is given.
PeakTests(trace, peak) ==
    /\ MoreThanTenthVolt(Item(trace, peak), Item(trace, peak - PeakSpan))
    /\ Item(trace, peak - PeakSpan) < Item(trace, peak)
    /\ Item(trace, peak + PeakSpan) < Item(trace, peak)

\* Mutant of FarEnough: any later candidate is far enough.
FarEnoughAny(peak, previous) == Abs(peak - previous) >= 1

\* abs(peak - previous) >= 10
FarEnough(peak, previous) == Abs(peak - previous) >= PeakSpan

\* One turn of the loop over the candidates: st is <<local_maxima, previous>>.
LocalMaximaStep(trace, offset, st, peak) ==
    IF Falsy(st[2])
    THEN IF PeakTests(trace, peak)
         THEN <<Append(st[1], peak + offset), peak>>
         ELSE st
    ELSE IF FarEnough(peak, st[2]) /\ PeakTests(trace, peak)
         THEN <<Append(st[1], peak + offset), peak>>
         ELSE st

RECURSIVE LocalMaximaLoop(_, _, _, _)
LocalMaximaLoop(trace, offset, st, peaks) ==
    IF peaks = <<>> THEN st
    ELSE LocalMaximaLoop(trace, offset,
                         LocalMaximaStep(trace, offset, st, Head(peaks)),
                         Tail(peaks))

get_local_maxima(trace, offset) ==
    LocalMaximaLoop(trace, offset, <<<<>>, None>>,
                    ArgRelExtremaGreater(Slice(trace, 0, -PeakSpan)))[1]

----------------------------------------------------------------------------
(* get_diff_times_10, get_end_of_mcv_domain (lines 40-53, 71-81) *)

\* The 30 of smoothed_trace[np.argmin(smoothed_trace):-30].
SurgeTail == 30

get_diff_times_10(domain) ==
    [i \in 1..(Len(Slice(domain, 0, -1))) |-> (domain[i + 1] - domain[i]) * 10]

\* Mutant of AboveLimit: "point >= limit".
AtLeastLimit(domain, point) ==
    LET n  == Len(domain)
        e  == [i \in 1..n |-> domain[i] \div 10]
        s1 == SumSeq(e)
        s2 == SumSeq([i \in 1..n |-> e[i] * e[i]])
        p  == point \div 10
    IN  /\ point >= 0
        /\ 4 * (n * p) * (n * p) >= 25 * (n * s2 - s1 * s1)

\* point > 2.5 * np.std(domain), decided without a square root.  With n the
\* number of differences, n^2 * var = n * sum(d^2) - sum(d)^2, and for a
\* positive point "point > 2.5 std" is "4 n^2 point^2 > 25 n^2 var"; a
\* point that is not positive is never above the limit, which is >= 0.
\* Every difference is a multiple of 10: both sides are taken of d / 10 to
\* stay inside 32-bit integers.  An empty domain has the standard deviation
\* NaN, which nothing exceeds; it has no point either.
AboveLimit(domain, point) ==
    LET n  == Len(domain)
        e  == [i \in 1..n |-> domain[i] \div 10]
        s1 == SumSeq(e)
        s2 == SumSeq([i \in 1..n |-> e[i] * e[i]])
        p  == point \div 10
    IN  /\ point > 0
        /\ 4 * (n * p) * (n * p) > 25 * (n * s2 - s1 * s1)

\* end_candidates at the end of the loop of get_end_of_mcv_domain.
EndCandidates(smoothed) ==
    LET am     == ArgMin(smoothed)
        domain == get_diff_times_10(Slice(smoothed, am, -SurgeTail))
    IN  Ascending({i + am : i \in {j \in 0..(Len(domain) - 1) :
                                      AboveLimit(domain, domain[j + 1])}})

\* Mutant of get_end_of_mcv_domain: without a candidate the end of the
\* domain searched is returned instead of failing.
get_end_of_mcv_domain_fallback(smoothed) ==
    LET end_candidates == EndCandidates(smoothed)
    IN  IF end_candidates = <<>>
        THEN Ok(Max2(ArgMin(smoothed), SliceBound(Len(smoothed), -SurgeTail)))
        ELSE Ok(Item(end_candidates, -1))

\* end_candidates[-1]: IndexError when there is no candidate.
get_end_of_mcv_domain(smoothed) ==
    LET end_candidates == EndCandidates(smoothed)
    IN  IF end_candidates = <<>> THEN Raise("IndexError")
        ELSE Ok(Item(end_candidates, -1))

----------------------------------------------------------------------------
(* project_last_maximum_on_curve (lines 56-68) *)

\* Mutant of project_last_maximum_on_curve: the 10 skipped samples are not
\* added back to the index.
project_last_maximum_local(smoothed, last_maximum) ==
    LET domain == Slice(smoothed, last_maximum + PeakSpan, -PeakSpan)
        limit  == Item(smoothed, last_maximum)
        above  == {i \in 0..(Len(domain) - 1) : domain[i + 1] > limit}
    IN  IF above = {} THEN None
        ELSE last_maximum + (CHOOSE i \in above : \A j \in above : i <= j)

\* The first point after last_maximum + 10, and before the last 10, that is
\* above the last maximum; None (the function falls off its end) if none.
project_last_maximum_on_curve(smoothed, last_maximum) ==
    LET domain == Slice(smoothed, last_maximum + PeakSpan, -PeakSpan)
        limit  == Item(smoothed, last_maximum)
        above  == {i \in 0..(Len(domain) - 1) : domain[i + 1] > limit}
    IN  IF above = {} THEN None
        ELSE last_maximum + (CHOOSE i \in above : \A j \in above : i <= j)
               + PeakSpan

----------------------------------------------------------------------------
(* get_iv, get_lvv, the mean and rounding of get_mcv *)

get_iv(smoothed, minimum_index) == SeqMax(Slice(smoothed, 0, minimum_index + 1))

get_lvv(smoothed) == SeqMin(smoothed)

\* np.round(np.mean(s), 2) in hundredths of a volt, ties to even; the mean
\* of an empty slice is NaN (a warning, not an exception) and stays NaN.
RoundedMean(s) ==
    IF s = <<>> THEN NaN
    ELSE LET num == 100 * SumSeq(s)
             den == Len(s) * Volt
             q   == num \div den
             r   == num % den
         IN  Float(IF 2 * r > den \/ (2 * r = den /\ q % 2 = 1)
                   THEN q + 1 ELSE q)

----------------------------------------------------------------------------
(* Inputs: crank messages *)

\* Short profiles: every sequence of up to MaxShortLen whole-volt samples
\* between 0 and MaxShortVolt, the empty one included.
MaxShortLen == 4
MaxShortVolt == 2

\* Long profiles: up to MaxPre samples before the minimum, and up to
\* MaxTailExtra samples more than the 30 that get_end_of_mcv_domain cuts.
MaxPre == 2
MaxTailExtra == 1

Flat(volts, n) == [i \in 1..n |-> volts * Volt]

RECURSIVE SeqsUpTo(_, _)
SeqsUpTo(S, n) ==
    IF n = 0 THEN {<<>>}
    ELSE LET shorter == SeqsUpTo(S, n - 1)
         IN  shorter \cup {Append(q, v) : q \in {r \in shorter : Len(r) = n - 1}, v \in S}

ShortProfiles == SeqsUpTo({v * Volt : v \in 0..MaxShortVolt}, MaxShortLen)

\* A crank voltage trace: the voltage before the dip, the dip to 0 V, the
\* first samples of the recovery, a first pulse of `Window` samples at h1
\* volts after g1 samples at the base voltage, possibly a second one at h2
\* volts after g2 more, g3 samples at the base, one sample at s volts and a
\* tail at t volts.
LongProfile(pre, early, base, g1, h1, g2, h2, g3, s, t, tail) ==
    Flat(3, pre) \o Flat(0, 1) \o [i \in 1..Len(early) |-> early[i] * Volt]
      \o Flat(base, g1) \o Flat(h1, Window)
      \o Flat(base, g2) \o (IF h2 = 0 THEN <<>> ELSE Flat(h2, Window))
      \o Flat(base, g3) \o Flat(s, 1) \o Flat(t, SurgeTail + tail)

LongProfiles ==
    {LongProfile(pre, early, 1, g1, h1, g2, h2, g3, s, t, tail) :
        pre \in 0..MaxPre, early \in {<<>>, <<1, 3>>, <<4>>},
        g1 \in {3, 8}, h1 \in {2, 4}, g2 \in {3, 6, 12}, h2 \in {0, 3},
        g3 \in {0, 6}, s \in {1, 12}, t \in {1, 5}, tail \in 0..MaxTailExtra}

\* Traces at one voltage throughout, longer than the 30 samples cut.
FlatProfiles == {Flat(v, SurgeTail + n) : v \in 0..1, n \in 1..(2 + MaxTailExtra)}

\* The trace of the round-trip scenario: minimum 2 V at index 3, 33 samples.
RoundTripProfile ==
    [i \in 1..14 |-> <<10, 9, 8, 2, 3, 5, 9, 12, 11, 10, 9, 8, 7, 7>>[i] * Volt]
      \o Flat(6, 19)

Profiles == ShortProfiles \cup LongProfiles \cup FlatProfiles \cup {RoundTripProfile}

Times == {"2018-11-26T07:36"}

WellFormed(profile, time) ==
    [keys |-> {"crank_profile", "time"}, crank_profile |-> profile, time |-> time]

\* A message without 'crank_profile', and one without 'time'.
Malformed(profile, time) ==
    {[keys |-> {"time"}, crank_profile |-> <<>>, time |-> time],
     [keys |-> {"crank_profile"}, crank_profile |-> profile, time |-> ""]}

Cranks ==
    {WellFormed(p, t) : p \in Profiles, t \in Times}
      \cup UNION {Malformed(p, t) : p \in Profiles, t \in Times}

----------------------------------------------------------------------------
(* extract_features (lines 84-101) and get_mcv (lines 125-151), step by step *)

NoFeatures == [iv |-> None, lvv |-> None, mcv |-> NaN, time |-> ""]

NoCrank == [keys |-> {}, crank_profile |-> <<>>, time |-> ""]

\* The locals of a call of extract_features before it has set them.
FreshLocals ==
    /\ smoothed_trace = <<>>
    /\ min_index = None
    /\ iv = None
    /\ end_mcv_domain = None
    /\ local_maxima = <<>>
    /\ projection = None
    /\ average_ends = None
    /\ mcv = NaN
    /\ lvv = None
    /\ features = NoFeatures
    /\ exception = ""

\* An exception leaves extract_features: nothing is returned.
RaiseFrom(e) ==
    /\ pc' = "raised"
    /\ exception' = e

\* line 96: smoothed_trace = get_smoothed_trace(crank).  crank['crank_profile']
\* is a KeyError on a message without it, np.argmin a ValueError on an empty
\* profile.
GetSmoothedTrace ==
    /\ pc = "extract_features"
    /\ IF "crank_profile" \notin crank.keys
       THEN RaiseFrom("KeyError") /\ UNCHANGED smoothed_trace
       ELSE IF crank.crank_profile = <<>>
       THEN RaiseFrom("ValueError") /\ UNCHANGED smoothed_trace
       ELSE /\ smoothed_trace' = get_smoothed_trace(crank.crank_profile)
            /\ pc' = "argmin"
            /\ UNCHANGED exception
    /\ UNCHANGED <<files, result_file, crank, min_index, iv, end_mcv_domain,
                   local_maxima, projection, average_ends, mcv, lvv, features>>

\* line 97: min_index = np.argmin(smoothed_trace)
ArgMinSmoothed ==
    /\ pc = "argmin"
    /\ min_index' = ArgMin(smoothed_trace)
    /\ pc' = "get_iv"
    /\ UNCHANGED <<files, result_file, crank, smoothed_trace, iv, end_mcv_domain,
                   local_maxima, projection, average_ends, mcv, lvv, features,
                   exception>>

\* line 98: iv = get_iv(smoothed_trace, min_index)
GetIv ==
    /\ pc = "get_iv"
    /\ iv' = get_iv(smoothed_trace, min_index)
    /\ pc' = "get_mcv"
    /\ UNCHANGED <<files, result_file, crank, smoothed_trace, min_index,
                   end_mcv_domain, local_maxima, projection, average_ends, mcv,
                   lvv, features, exception>>

\* line 99 into line 141: end_mcv_domain = get_end_of_mcv_domain(smoothed_trace)
GetEndOfMcvDomain ==
    /\ pc = "get_mcv"
    /\ LET r == get_end_of_mcv_domain(smoothed_trace)
       IN  IF r.exc # ""
           THEN RaiseFrom(r.exc) /\ UNCHANGED end_mcv_domain
           ELSE /\ end_mcv_domain' = r.val
                /\ pc' = "get_local_maxima"
                /\ UNCHANGED exception
    /\ UNCHANGED <<files, result_file, crank, smoothed_trace, min_index, iv,
                   local_maxima, projection, average_ends, mcv, lvv, features>>

\* lines 142-143
GetLocalMaxima ==
    /\ pc = "get_local_maxima"
    /\ local_maxima' =
           get_local_maxima(Slice(smoothed_trace, min_index, end_mcv_domain),
                            min_index)
    /\ pc' = "maxima"
    /\ UNCHANGED <<files, result_file, crank, smoothed_trace, min_index, iv,
                   end_mcv_domain, projection, average_ends, mcv, lvv, features,
                   exception>>

\* lines 144-146: no local maximum, the mean up to end_mcv_domain
MeanWithoutMaxima ==
    /\ pc = "maxima"
    /\ local_maxima = <<>>
    /\ average_ends' = end_mcv_domain
    /\ mcv' = RoundedMean(Slice(smoothed_trace, min_index, end_mcv_domain))
    /\ pc' = "get_lvv"
    /\ UNCHANGED <<files, result_file, crank, smoothed_trace, min_index, iv,
                   end_mcv_domain, local_maxima, projection, lvv, features,
                   exception>>

\* lines 147-148
ProjectLastMaximum ==
    /\ pc = "maxima"
    /\ local_maxima # <<>>
    /\ projection' =
           project_last_maximum_on_curve(smoothed_trace, Item(local_maxima, -1))
    /\ pc' = "average"
    /\ UNCHANGED <<files, result_file, crank, smoothed_trace, min_index, iv,
                   end_mcv_domain, local_maxima, average_ends, mcv, lvv,
                   features, exception>>

\* lines 149-151: "projection if projection else end_mcv_domain"
MeanToAverageEnds ==
    /\ pc = "average"
    /\ LET ends == IF Falsy(projection) THEN end_mcv_domain ELSE projection
       IN  /\ average_ends' = ends
           /\ mcv' = RoundedMean(Slice(smoothed_trace, min_index, ends))
    /\ pc' = "get_lvv"
    /\ UNCHANGED <<files, result_file, crank, smoothed_trace, min_index, iv,
                   end_mcv_domain, local_maxima, projection, lvv, features,
                   exception>>

\* line 100: lvv = get_lvv(smoothed_trace)
GetLvv ==
    /\ pc = "get_lvv"
    /\ lvv' = get_lvv(smoothed_trace)
    /\ pc' = "return"
    /\ UNCHANGED <<files, result_file, crank, smoothed_trace, min_index, iv,
                   end_mcv_domain, local_maxima, projection, average_ends, mcv,
                   features, exception>>

\* line 101: crank['time'] is a KeyError on a message without it.
ReturnFeatures ==
    /\ pc = "return"
    /\ IF "time" \notin crank.keys
       THEN RaiseFrom("KeyError") /\ UNCHANGED features
       ELSE /\ features' = [iv |-> iv, lvv |-> lvv, mcv |-> mcv, time |-> crank.time]
            /\ pc' = "returned"
            /\ UNCHANGED exception
    /\ UNCHANGED <<files, result_file, crank, smoothed_trace, min_index, iv,
                   end_mcv_domain, local_maxima, projection, average_ends, mcv,
                   lvv>>

ExtractFeatures ==
    \/ GetSmoothedTrace
    \/ ArgMinSmoothed
    \/ GetIv
    \/ GetEndOfMcvDomain
    \/ GetLocalMaxima
    \/ MeanWithoutMaxima
    \/ ProjectLastMaximum
    \/ MeanToAverageEnds
    \/ GetLvv
    \/ ReturnFeatures

\* One call of extract_features on any crank message.
Init ==
    /\ files = <<>>
    /\ result_file = <<>>
    /\ crank \in Cranks
    /\ pc = "extract_features"
    /\ FreshLocals

Next == ExtractFeatures

Spec == Init /\ [][Next]_vars

----------------------------------------------------------------------------
(* The batch driver (lines 180-194) *)

\* At most MaxFiles crank files are found under the crankData directories.
MaxFiles == 2

\* A message whose trace has a local maximum, one whose trace has a surge
\* but no local maximum, one whose only surge is the first step after the
\* minimum, the round-trip trace, and messages lacking a key or samples.
BatchCranks ==
    {WellFormed(LongProfile(1, <<>>, 1, 3, 2, 6, 0, 6, 1, 5, 1), "t1"),
     WellFormed(LongProfile(1, <<>>, 1, 3, 2, 3, 0, 0, 12, 1, 0), "t2"),
     WellFormed(LongProfile(1, <<>>, 1, 3, 2, 3, 0, 0, 1, 1, 0), "t3"),
     WellFormed(RoundTripProfile, "t4"),
     WellFormed(<<>>, "t5"),
     [keys |-> {"time"}, crank_profile |-> <<>>, time |-> "t6"],
     [keys |-> {"crank_profile"},
      crank_profile |-> LongProfile(1, <<>>, 1, 3, 2, 6, 0, 6, 1, 5, 1),
      time |-> ""]}

\* The .json files in walk order, each with its path and its content.
Batches ==
    UNION {{[i \in 1..n |-> [path |-> i, data |-> c[i]]] :
               c \in [1..n -> BatchCranks]} : n \in 1..MaxFiles}

\* lines 186-191: the next .json file is loaded, its path and a space are
\* written, and extract_features is called on its content.
OpenNextFile ==
    /\ pc = "for"
    /\ files # <<>>
    /\ crank' = Head(files).data
    /\ files' = Tail(files)
    /\ result_file' = Append(result_file,
           [path |-> Head(files).path, json |-> NoFeatures, newline |-> FALSE])
    /\ pc' = "extract_features"
    /\ smoothed_trace' = <<>>
    /\ min_index' = None
    /\ iv' = None
    /\ end_mcv_domain' = None
    /\ local_maxima' = <<>>
    /\ projection' = None
    /\ average_ends' = None
    /\ mcv' = NaN
    /\ lvv' = None
    /\ features' = NoFeatures
    /\ exception' = ""

\* lines 192-193: the returned features and a newline end the line.
WriteFeatures ==
    /\ pc = "returned"
    /\ result_file' = [result_file EXCEPT ![Len(result_file)] =
                           [@ EXCEPT !.json = features, !.newline = TRUE]]
    /\ pc' = "for"
    /\ UNCHANGED <<files, crank, smoothed_trace, min_index, iv, end_mcv_domain,
                   local_maxima, projection, average_ends, mcv, lvv, features,
                   exception>>

\* No try statement encloses line 192: an exception that leaves
\* extract_features leaves the loops and the script.
Uncaught ==
    /\ pc = "raised"
    /\ pc' = "crashed"
    /\ UNCHANGED <<files, result_file, crank, smoothed_trace, min_index, iv,
                   end_mcv_domain, local_maxima, projection, average_ends, mcv,
                   lvv, features, exception>>

\* line 194: after the last file.
CloseResultFile ==
    /\ pc = "for"
    /\ files = <<>>
    /\ pc' = "closed"
    /\ UNCHANGED <<files, result_file, crank, smoothed_trace, min_index, iv,
                   end_mcv_domain, local_maxima, projection, average_ends, mcv,
                   lvv, features, exception>>

InitBatch ==
    /\ files \in Batches
    /\ result_file = <<>>
    /\ crank = NoCrank
    /\ pc = "for"
    /\ FreshLocals

NextBatch ==
    \/ OpenNextFile
    \/ ExtractFeatures
    \/ WriteFeatures
    \/ Uncaught
    \/ CloseResultFile

SpecBatch == InitBatch /\ [][NextBatch]_vars

----------------------------------------------------------------------------
(* Properties *)

\* extract_features got past get_smoothed_trace.
Smoothed == smoothed_trace # <<>>

\* extract_features has ended, by a return or by an exception.
Ended == pc \in {"returned", "raised"}

\* The raw profile of the crank at hand.
Raw == crank.crank_profile

\* C1: an error raised while extracting the features of one record does not
\* halt the batch: when the driver stops, every file has been processed, the
\* result file was closed and every line written is complete.
C1_ErrorsDoNotHaltBatch ==
    pc \in {"closed", "crashed"} =>
        /\ pc = "closed"
        /\ files = <<>>
        /\ \A i \in 1..Len(result_file) : result_file[i].newline

\* The differences of the sub-trace [argmin, len-30) of the smoothed trace,
\* and "none of them is above 2.5 standard deviations", written out from
\* the statement (the factor 10 scales both sides alike and is left out).
SurgeDiffs ==
    LET am == ArgMin(smoothed_trace)
        hi == Len(smoothed_trace) - 30
    IN  [i \in 1..(hi - am - 1) |->
            smoothed_trace[am + i + 1] - smoothed_trace[am + i]]

NoSurge ==
    LET d == SurgeDiffs
        n == Len(d)
        s1 == SumSeq(d)
        s2 == SumSeq([i \in 1..n |-> d[i] * d[i]])
    IN  \A i \in 1..n :
            ~(d[i] > 0 /\ 4 * (n * d[i]) * (n * d[i]) > 25 * (n * s2 - s1 * s1))

\* C2: when no scaled first difference over [argmin, len-30) exceeds 2.5
\* standard deviations, extract_features never gets past
\* get_end_of_mcv_domain: it ends with the IndexError and returns no feature
\* record, and no mcv is ever set.
C2_NoSurgeAbandonsCrank ==
    (Smoothed /\ NoSurge) =>
        /\ pc \in {"argmin", "get_iv", "get_mcv", "raised"}
        /\ pc = "raised" => exception = "IndexError"
        /\ features = NoFeatures
        /\ mcv = NaN
        /\ end_mcv_domain = None

\* C2's case: a trace with differences to look at, none of them a surge,
\* and the call ended by the IndexError.
C2_Witness ==
    /\ Smoothed
    /\ Len(SurgeDiffs) >= 2
    /\ NoSurge
    /\ pc = "raised"
    /\ exception = "IndexError"

\* C3 as stated: on the round-trip trace extract_features returns a record
\* with lvv 2 V, iv 10 V and a finite mcv.
C3_RoundTripReturnsRecord ==
    (Ended /\ crank = WellFormed(RoundTripProfile, crank.time)) =>
        /\ pc = "returned"
        /\ features.lvv = 2 * Volt
        /\ features.iv = 10 * Volt
        /\ features.mcv.finite

\* C3 amended: on the round-trip trace the minimum is at index 3 and iv is
\* 10 V, but the sub-trace [3, 33-30) is empty: extract_features ends with
\* the IndexError of get_end_of_mcv_domain and returns no record.
C3_RoundTripIsInvalidDomain ==
    (Ended /\ crank = WellFormed(RoundTripProfile, crank.time)) =>
        /\ pc = "raised"
        /\ exception = "IndexError"
        /\ min_index = 3
        /\ iv = 10 * Volt
        /\ SurgeDiffs = <<>>
        /\ features = NoFeatures

C3_Witness ==
    /\ crank = WellFormed(RoundTripProfile, crank.time)
    /\ pc = "raised"
    /\ exception = "IndexError"
    /\ iv = 10 * Volt

\* C4: the smoothed trace is as long as the raw profile.
C4_SmoothedLengthIsRawLength ==
    Smoothed => Len(smoothed_trace) = Len(Raw)

\* C4's case: a profile smoothed with fewer than 5 samples, but at least
\* one, after its minimum.
C4_Witness ==
    /\ Smoothed
    /\ Len(Raw) - 1 - ArgMin(Raw) \in 1..(Window - 1)
    /\ Len(smoothed_trace) = Len(Raw)

\* C5: smoothing leaves every sample up to and including the first minimum
\* as it was; each later sample i is the mean of the raw samples from
\* max(min_index + 1, i - 4) to i.
C5_PrefixUnchanged ==
    Smoothed =>
        LET m == ArgMin(Raw)
        IN  /\ \A i \in 0..m : smoothed_trace[i + 1] = Raw[i + 1]
            /\ \A i \in (m + 1)..(Len(Raw) - 1) :
                   LET lo == Max2(m + 1, i - 4)
                   IN  (i - lo + 1) * smoothed_trace[i + 1]
                           = SumSeq([k \in 1..(i - lo + 1) |-> Raw[lo + k]])

\* C5's case: samples before the minimum, and a sample after it that the
\* smoothing changed.
C5_Witness ==
    /\ Smoothed
    /\ ArgMin(Raw) >= 1
    /\ \E i \in (ArgMin(Raw) + 2)..Len(Raw) : smoothed_trace[i] # Raw[i]
    /\ \A i \in 1..(ArgMin(Raw) + 1) : smoothed_trace[i] = Raw[i]

\* C6: the local maxima returned are at least 10 apart, each after its
\* predecessor.
C6_MaximaTenApart ==
    \A k \in 2..Len(local_maxima) :
        local_maxima[k] - local_maxima[k - 1] >= 10

\* C6's case: two accepted peaks, the first of them less than 10 positions
\* into the domain.
C6_Witness ==
    /\ Len(local_maxima) >= 2
    /\ local_maxima[1] - min_index < 10
    /\ local_maxima[2] - local_maxima[1] >= 10

MaximaDomain == Slice(smoothed_trace, min_index, end_mcv_domain)

\* C8: every accepted peak, p into the domain, passed the tests against
\* the samples 10 before and 10 after it, both positions of the domain.
C8_PeakTestsAtRealPositions ==
    \A k \in 1..Len(local_maxima) :
        LET p == local_maxima[k] - min_index
            d == MaximaDomain
        IN  /\ p - 10 >= 0
            /\ p + 10 <= Len(d) - 1
            /\ d[p - 10 + 1] < d[p + 1]
            /\ d[p + 10 + 1] < d[p + 1]
            /\ 10 * Abs(d[p + 1] - d[p - 10 + 1]) > Volt

\* C9: no feature record is returned whose mcv is the mean of an empty slice.
C9_NoRecordWithNaN ==
    pc = "returned" => features.mcv.finite

\* The smallest index i with m + 10 <= i < len - 10 whose sample is above
\* that at m, the last accepted maximum; None if there is none.
FirstAboveLastMaximum ==
    LET m == local_maxima[Len(local_maxima)]
        S == {i \in (m + 10)..(Len(smoothed_trace) - 11) :
                 smoothed_trace[i + 1] > smoothed_trace[m + 1]}
    IN  IF S = {} THEN None ELSE CHOOSE i \in S : \A j \in S : i <= j

\* C10: with a local maximum accepted, the slice averaged ends at the
\* first index at least 10 after the last maximum, and before the last 10
\* samples, whose sample is above it, and at the domain end if there is
\* none; mcv is the rounded mean of that slice.
C10_AverageEndsAtProjection ==
    (local_maxima # <<>> /\ average_ends # None) =>
        /\ average_ends = IF FirstAboveLastMaximum = None
                          THEN end_mcv_domain ELSE FirstAboveLastMaximum
        /\ mcv = RoundedMean(Slice(smoothed_trace, min_index, average_ends))

\* C10's case: a projection was found, and it is not the domain end.
C10_Witness ==
    /\ local_maxima # <<>>
    /\ average_ends # None
    /\ projection # None
    /\ average_ends = projection
    /\ average_ends # end_mcv_domain

\* C10's other case: no sample is above the last maximum, the domain end
\* is used.
C10_FallbackReached ==
    /\ local_maxima # <<>>
    /\ average_ends # None
    /\ projection = None
    /\ average_ends = end_mcv_domain

====
